---- MODULE Spec2Model ----
(***************************************************************************)
(* Model of standardize_fields.py: standardize_json_fields loads a JSON    *)
(* array of flat records, renames every key through FIELD_MAPPING, turns   *)
(* numeric-looking text values into numbers, and dumps the result.         *)
(*                                                                         *)
(* Text is a sequence of one-character strings.  A JSON value is a record  *)
(* [t, s, m, e, neg] of one shape for every type:                          *)
(*   t = "str"    s is the text                                            *)
(*   t = "int"    the integer (-1)^neg * m                                 *)
(*   t = "float"  the double (-1)^neg * m * 10^e with m not divisible by   *)
(*                10 (a decimal of at most 9 significant digits names one  *)
(*                double, so this is the double's shortest repr), or the   *)
(*                infinity when s = "inf"                                  *)
(*   t = "bool"   m = 1 for true, 0 for false                              *)
(*   t = "null"                                                            *)
(***************************************************************************)
EXTENDS Integers, Sequences, FiniteSets, TLC

(***************************************************************************)
(* Bounds of the checked instances.                                        *)
(***************************************************************************)
\* longest text drawn exhaustively from Alphabet as the value under test
MaxStrLen == 4
\* most records of an input collection of the driver instance
MaxRecords == 2
\* most fields of an input collection of the driver instance, all records together
MaxFields == 3

(***************************************************************************)
(* FIELD_MAPPING, the whole table.                                         *)
(***************************************************************************)
FIELD_MAPPING ==
    ( "LOC_ID" :> "locId" @@ "Airport" :> "airportName" @@ "City" :> "city"
   @@ "State" :> "state" @@ "Hub_FY25" :> "hubSize" @@ "FYE" :> "fiscalYearEnd"
   @@ "Date Filed" :> "dateFiled" @@ "FYE_year" :> "fiscalYear"
   @@ "NTAD_LAT_DECIMAL" :> "latitude" @@ "NTAD_LONG_DECIMAL" :> "longitude"
   @@ "passenger_airline_landing_fees" :> "passengerAirlineLandingFees"
   @@ "terminal_arrival_rent_util" :> "terminalArrivalRentUtil"
   @@ "terminal_apron_charges" :> "terminalApronCharges"
   @@ "federal_inspection_fees" :> "federalInspectionFees"
   @@ "other_passenger_aero_fees" :> "otherPassengerAeroFees"
   @@ "Total Passenger Airline Aeronautical Revenue" :> "totalPassengerAeroRevenue"
   @@ "landing_fees_cargo" :> "cargoLandingFees"
   @@ "landing_fees_ga_mil" :> "gaAndMilitaryLandingFees"
   @@ "fbo_revenue" :> "fboRevenue"
   @@ "cargo_hangar_rentals" :> "cargoHangarRentals"
   @@ "aviation_fuel_tax_retained" :> "aviationFuelTaxRetained"
   @@ "fuel_sales_or_flowage" :> "fuelSalesOrFlowage"
   @@ "security_reimb_fed" :> "federalSecurityReimbursement"
   @@ "other_nonpassenger_aero" :> "otherNonpassengerAeroRevenue"
   @@ "Total Non-Passenger Aeronautical Revenue" :> "totalNonpassengerAeroRevenue"
   @@ "land_nonterminal_leases" :> "landAndNonterminalLeases"
   @@ "terminal_food_bev" :> "terminalFoodAndBeverage"
   @@ "terminal_retail_dutyfree" :> "terminalRetailAndDutyFree"
   @@ "terminal_services_other" :> "terminalServicesAndOther"
   @@ "rental_cars_excl_cfc" :> "rentalCarsExclCfc"
   @@ "parking_ground_transport" :> "parkingAndGroundTransport"
   @@ "hotel" :> "hotelRevenue" @@ "other_nonaero" :> "otherNonAeroRevenue"
   @@ "personnel_comp_benefits" :> "personnelCompensationAndBenefits"
   @@ "communications_utilities" :> "communicationsAndUtilities"
   @@ "supplies_materials" :> "suppliesAndMaterials"
   @@ "contractual_services" :> "contractualServices"
   @@ "insurance_claims_settlements" :> "insuranceClaimsAndSettlements"
   @@ "other_operating_expenses" :> "otherOperatingExpenses"
   @@ "depreciation" :> "depreciation"
   @@ "Operating Income" :> "operatingIncome" @@ "op_income" :> "totalOperatingIncome"
   @@ "interest_income" :> "interestIncome" @@ "interest_expense" :> "interestExpense"
   @@ "grant_receipts" :> "grantReceipts" @@ "pfc" :> "passengerFacilityCharges"
   @@ "capital_contributions" :> "capitalContributions"
   @@ "special_items_loss" :> "specialItemsLoss"
   @@ "other_nonoperating_revenue" :> "otherNonoperatingRevenue"
   @@ "net_assets_change" :> "netAssetsChange" @@ "net_assets_beg" :> "netAssetsBeginning"
   @@ "net_assets_end" :> "netAssetsEnd"
   @@ "Airfield" :> "airfieldCapex" @@ "Terminal" :> "terminalCapex"
   @@ "Parking" :> "parkingCapex"
   @@ "Roadways - Rail - Transit" :> "roadwaysRailTransitCapex"
   @@ "Other Capital Expenditures" :> "otherCapitalExpenditures"
   @@ "total_capex" :> "totalCapex"
   @@ "Long Term Bonds" :> "longTermBonds"
   @@ "Loans and interim financing" :> "loansAndInterimFinancing"
   @@ "Special facility bonds" :> "specialFacilityBonds"
   @@ "total_debt_end_year" :> "totalDebtEndYear"
   @@ "restricted_debt_reserves" :> "restrictedDebtReserves"
   @@ "restricted_renewals_repl" :> "restrictedRenewalsAndReplacements"
   @@ "Restricted other" :> "restrictedOther"
   @@ "Total Restricted Assets" :> "totalRestrictedAssets"
   @@ "unrestricted_cash_investments" :> "unrestrictedCashAndInvestments"
   @@ "Bond proceeds" :> "bondProceeds"
   @@ "proceeds_sale_property" :> "proceedsSaleOfProperty"
   @@ "debt_service_excl_coverage" :> "debtServiceExclCoverage"
   @@ "debt_service_net_pfc" :> "debtServiceNetPfc"
   @@ "enplanements" :> "enplanements"
   @@ "Landed weights in pounds" :> "landedWeightsInPounds"
   @@ "Signatory landing fee rate per 1000 lbs" :> "signatoryLandingFeeRatePer1000Lbs"
   @@ "Annual aircraft operations" :> "annualAircraftOperations"
   @@ "Passenger airline cost per enplanement" :> "passengerAirlineCostPerEnplanement"
   @@ "Full time equivalent employees at end of year" :> "fullTimeEquivalentEmployees"
   @@ "Security and law enforcement costs" :> "securityAndLawEnforcementCosts"
   @@ "ARFF costs" :> "arffCosts"
   @@ "Repairs and maintenance" :> "repairsAndMaintenance"
   @@ "Marketing - Advertising - Promotions" :> "marketingAdvertisingPromotions"
   @@ "aero_passenger_rev" :> "totalAeroPassengerRevenue"
   @@ "aero_nonpassenger_rev" :> "totalAeroNonpassengerRevenue"
   @@ "aero_total_rev" :> "totalAeronauticalRevenue"
   @@ "nonaero_rev" :> "totalNonAeronauticalRevenue"
   @@ "op_rev" :> "totalOperatingRevenue" @@ "op_exp" :> "totalOperatingExpenses"
   @@ "nonop_net_and_capital" :> "totalNonoperatingNetAndCapital"
   @@ "capex_total" :> "totalCapitalExpenditures" @@ "debt_total" :> "totalDebt"
   @@ "restricted_assets_total" :> "totalRestrictedAssetsCalculated"
   @@ "reporting_year_proceeds" :> "reportingYearProceeds"
   @@ "debt_service_total" :> "totalDebtService"
   @@ "kpi_cpe" :> "costPerEnplanement" @@ "kpi_oper_margin" :> "operatingMargin" )

LegacyKeys == DOMAIN FIELD_MAPPING
CanonicalKeys == {FIELD_MAPPING[k] : k \in LegacyKeys}

(***************************************************************************)
(* JSON values.                                                            *)
(***************************************************************************)
Str(s) == [t |-> "str", s |-> s, m |-> 0, e |-> 0, neg |-> FALSE]
IntV(neg, m) == [t |-> "int", s |-> <<>>, m |-> m, e |-> 0, neg |-> neg /\ m # 0]
FloatV(neg, m, e) == [t |-> "float", s |-> <<>>, m |-> m, e |-> e, neg |-> neg]
InfV(neg) == [t |-> "float", s |-> <<"i", "n", "f">>, m |-> 0, e |-> 0, neg |-> neg]
BoolV(b) == [t |-> "bool", s |-> <<>>, m |-> IF b THEN 1 ELSE 0, e |-> 0, neg |-> FALSE]
Null == [t |-> "null", s |-> <<>>, m |-> 0, e |-> 0, neg |-> FALSE]

(***************************************************************************)
(* str methods used on line 166 and 168-170.                               *)
(***************************************************************************)
DigitChars == {"0", "1", "2", "3", "4", "5", "6", "7", "8", "9"}

DigitValue(c) ==
    CASE c = "0" -> 0 [] c = "1" -> 1 [] c = "2" -> 2 [] c = "3" -> 3 [] c = "4" -> 4
      [] c = "5" -> 5 [] c = "6" -> 6 [] c = "7" -> 7 [] c = "8" -> 8 [] c = "9" -> 9

\* (variant) the test holds of the empty text too
isdigitOrEmpty(s) == \A p \in 1..Len(s) : s[p] \in DigitChars

\* str.isdigit(): every character is a digit and there is at least one (of the
\* characters Python counts as digits, only the ASCII ones occur in the inputs)
isdigit(s) == s # <<>> /\ \A p \in 1..Len(s) : s[p] \in DigitChars

\* sub in s
Contains(s, sub) ==
    \E p \in 1..(Len(s) - Len(sub) + 1) : SubSeq(s, p, p + Len(sub) - 1) = sub

\* s.replace(old, ''): the non-overlapping occurrences of old, left to right
RECURSIVE replace(_, _)
replace(s, old) ==
    IF Len(s) < Len(old) THEN s
    ELSE IF SubSeq(s, 1, Len(old)) = old
         THEN replace(SubSeq(s, Len(old) + 1, Len(s)), old)
         ELSE <<Head(s)>> \o replace(Tail(s), old)

\* the chain of replace calls of line 166
Stripped(s) ==
    replace(replace(replace(replace(s, <<".">>), <<"-">>), <<"E", "+">>), <<"e", "+">>)

\* the condition of line 166
LooksNumeric(value) == value.t = "str" /\ isdigit(Stripped(value.s))

(***************************************************************************)
(* int(value) and float(value) on a text, lines 169-173.  Both are applied *)
(* only to texts that passed line 166, which are made of digits, '.', '-', *)
(* 'E', 'e' and '+' alone, so the whitespace, underscore and inf/nan       *)
(* spellings the built-ins also read cannot occur.                         *)
(***************************************************************************)
\* a run of one or more decimal digits, as the parsers of int() and float() read it
Digits(s) == s # <<>> /\ \A p \in 1..Len(s) : s[p] \in DigitChars

RECURSIVE DigitsVal(_)
DigitsVal(ds) ==
    IF ds = <<>> THEN 0
    ELSE DigitsVal(SubSeq(ds, 1, Len(ds) - 1)) * 10 + DigitValue(ds[Len(ds)])

HasSign(s) == s # <<>> /\ Head(s) \in {"+", "-"}
Unsigned(s) == IF HasSign(s) THEN Tail(s) ELSE s
IsNegative(s) == s # <<>> /\ Head(s) = "-"

\* int(s) does not raise ValueError
IntParses(s) == Digits(Unsigned(s))
\* int(s) when it does not raise
IntOf(s) == IntV(IsNegative(s), DigitsVal(Unsigned(s)))

\* the position of the first character of s that is in cs, Len(s) + 1 if none
FirstOf(s, cs) ==
    IF \E p \in 1..Len(s) : s[p] \in cs
    THEN CHOOSE p \in 1..Len(s) : s[p] \in cs /\ \A q \in 1..(p - 1) : s[q] \notin cs
    ELSE Len(s) + 1

\* the parts of a floating-point literal: sign, integer digits, fraction digits, exponent
FloatParts(s) ==
    LET body == Unsigned(s)
        ep   == FirstOf(body, {"e", "E"})
        mant == SubSeq(body, 1, ep - 1)
        dp   == FirstOf(mant, {"."})
    IN  [ hasExp |-> ep <= Len(body),
          expo   |-> SubSeq(body, ep + 1, Len(body)),
          hasDot |-> dp <= Len(mant),
          ip     |-> SubSeq(mant, 1, dp - 1),
          fp     |-> SubSeq(mant, dp + 1, Len(mant)) ]

\* float(s) does not raise ValueError
FloatParses(s) ==
    LET q == FloatParts(s)
    IN  /\ q.ip = <<>> \/ Digits(q.ip)
        /\ q.fp = <<>> \/ Digits(q.fp)
        /\ q.ip # <<>> \/ q.fp # <<>>
        /\ q.hasExp => Digits(Unsigned(q.expo))

RECURSIVE NumDigits(_)
NumDigits(n) == IF n < 10 THEN 1 ELSE 1 + NumDigits(n \div 10)

RECURSIVE Pow10(_)
Pow10(n) == IF n = 0 THEN 1 ELSE 10 * Pow10(n - 1)

\* m * 10^e with the trailing zeros of m moved into e
RECURSIVE Normal(_, _, _)
Normal(neg, m, e) ==
    IF m = 0 THEN FloatV(neg, 0, 0)
    ELSE IF m % 10 = 0 THEN Normal(neg, m \div 10, e + 1)
    ELSE FloatV(neg, m, e)

\* the largest decimal exponent of a finite double, and the first 9 digits of the
\* least decimal that rounds to infinity (1.7976931348623158e308)
MaxDoubleExp == 308
InfLead9 == 179769314

\* m * 10^e is too large for a double: float() returns inf, it does not raise
Overflows(m, e) ==
    /\ m # 0
    /\ LET lead == NumDigits(m) + e - 1
       IN  \/ lead > MaxDoubleExp
           \/ lead = MaxDoubleExp /\ m * Pow10(9 - NumDigits(m)) >= InfLead9

\* float(s) when it does not raise
FloatOf(s) ==
    LET q   == FloatParts(s)
        x   == IF ~q.hasExp THEN 0
               ELSE IF IsNegative(q.expo) THEN 0 - DigitsVal(Unsigned(q.expo))
               ELSE DigitsVal(Unsigned(q.expo))
        m   == DigitsVal(q.ip \o q.fp)
        e   == x - Len(q.fp)
    IN  IF Overflows(m, e) THEN InfV(IsNegative(s)) ELSE Normal(IsNegative(s), m, e)

(***************************************************************************)
(* Lines 166-175: the conversion of one value.                             *)
(***************************************************************************)
\* (variant) the elif of line 170 is missing
UsesFloatExpOnly(s) == Contains(s, <<"E", "+">>) \/ Contains(s, <<"e", "+">>)

\* the branch of lines 168-173 taken for a text: which built-in is called
UsesFloat(s) ==
    Contains(s, <<"E", "+">>) \/ Contains(s, <<"e", "+">>) \/ Contains(s, <<".">>)

\* the try block raises ValueError (caught on line 174)
Raises(s) == IF UsesFloat(s) THEN ~FloatParses(s) ELSE ~IntParses(s)

\* (variant) line 166 lets booleans through, and int(True) is 1
CoerceBoolToo(value) ==
    IF value.t = "bool" THEN IntV(FALSE, value.m)
    ELSE IF LooksNumeric(value) /\ ~Raises(value.s)
    THEN IF UsesFloat(value.s) THEN FloatOf(value.s) ELSE IntOf(value.s)
    ELSE value

\* the value after lines 166-175
Coerce(value) ==
    IF LooksNumeric(value) /\ ~Raises(value.s)
    THEN IF UsesFloat(value.s) THEN FloatOf(value.s) ELSE IntOf(value.s)
    ELSE value

(***************************************************************************)
(* Lines 159-177: one record.  A record (a dict) is the sequence of its    *)
(* items [k, v] in insertion order, with no key twice.                     *)
(***************************************************************************)
\* (variant) FIELD_MAPPING.get(old_field): no default, None for a key not in the table
LookupNoDefault(old_field) ==
    IF old_field \in DOMAIN FIELD_MAPPING THEN FIELD_MAPPING[old_field] ELSE "None"

\* (variant) the table also renames one of its own canonical keys
LookupChained(old_field) ==
    IF old_field = "locId" THEN "locationId"
    ELSE IF old_field \in DOMAIN FIELD_MAPPING THEN FIELD_MAPPING[old_field]
    ELSE old_field

\* FIELD_MAPPING.get(old_field, old_field), line 163
Lookup(old_field) ==
    IF old_field \in DOMAIN FIELD_MAPPING THEN FIELD_MAPPING[old_field] ELSE old_field

KeysOf(items) == {items[p].k : p \in 1..Len(items)}

\* (variant) new_record.setdefault(new_field, value): the first value is kept
SetItemKeepFirst(items, k, v) ==
    IF k \in KeysOf(items) THEN items ELSE Append(items, [k |-> k, v |-> v])

\* new_record[new_field] = value, line 177: a present key keeps its place
SetItem(items, k, v) ==
    IF k \in KeysOf(items)
    THEN [p \in 1..Len(items) |-> IF items[p].k = k THEN [k |-> k, v |-> v] ELSE items[p]]
    ELSE Append(items, [k |-> k, v |-> v])

\* the body of the loop of line 162 for one item
TransformItem(new, item) == SetItem(new, Lookup(item.k), Coerce(item.v))

\* new_record after the loop of line 162 has run over the first n items
RECURSIVE TransformPrefix(_, _)
TransformPrefix(items, n) ==
    IF n = 0 THEN <<>> ELSE TransformItem(TransformPrefix(items, n - 1), items[n])

\* new_record after the whole loop of line 162
TransformRecord(items) == TransformPrefix(items, Len(items))

(***************************************************************************)
(* The files.  The input file is missing, unreadable, not JSON, or holds a *)
(* JSON array; an element of the array is an object, [obj |-> TRUE] with   *)
(* its items, or something that has no items() (a number, say).  The       *)
(* output file is the sequence of chunks json.dump has written to it.      *)
(***************************************************************************)
Item(k, v) == [k |-> k, v |-> v]
Obj(items) == [obj |-> TRUE, items |-> items]
NotObject == [obj |-> FALSE, items |-> <<>>]

JsonFile(d) == [kind |-> "json", data |-> d]
BadFile(kind) == [kind |-> kind, data |-> <<>>]
BadFiles == {BadFile("missing"), BadFile("unreadable"), BadFile("invalid")}

Chunk(tok, items) == [tok |-> tok, items |-> items]

\* what json.dump(standardized_data, f, indent=2) writes, chunk by chunk (line 183)
Chunks(records) ==
    IF records = <<>> THEN <<Chunk("[]", <<>>)>>
    ELSE <<Chunk("[", <<>>)>>
         \o [p \in 1..Len(records) |-> Chunk("{}", records[p])]
         \o <<Chunk("]", <<>>)>>

NoFile == [exists |-> FALSE, content |-> <<>>]
FileOf(content) == [exists |-> TRUE, content |-> content]

\* the output file of an earlier run
OldFile == FileOf(Chunks(<< <<Item("locId", Str(<<"O", "L", "D">>))>> >>))

(***************************************************************************)
(* The inputs of the checked instances.                                    *)
(***************************************************************************)
Alphabet == {"0", "1", ".", "-", "E", "e", "+"}

TextsUpTo(n) == UNION {[1..len -> Alphabet] : len \in 0..n}

\* the texts the specification names
ExampleTexts ==
    { <<"1", "2", "3">>, <<"-", "4", "2">>, <<"1", "2", "3", ".", "4", "5">>,
      <<"1", ".", "5", "E", "+", "1", "0">>, <<"a", "b", "c">>, <<>>,
      <<"1", ".", "2", ".", "3">>, <<"-", "-", "5">>, <<"1", "2", "-", "3">>,
      <<"5", "e", "+">>, <<"1", "e", "-", "5">>, <<"+", "5">>,
      <<"1", "E", "+", "3", "0", "9">> }

NonTextValues ==
    { IntV(FALSE, 5), IntV(TRUE, 7), FloatV(FALSE, 15, -1), BoolV(TRUE), BoolV(FALSE),
      Null, [t |-> "nested", s |-> <<>>, m |-> 0, e |-> 0, neg |-> FALSE] }

ValuesUnderTest == {Str(s) : s \in TextsUpTo(MaxStrLen) \cup ExampleTexts} \cup NonTextValues

ABC == Str(<<"A", "B", "C">>)
TestField == Str(<<"T", "e", "s", "t", " ", "F", "i", "e", "l", "d">>)

\* the value under test in a record where it collides with an earlier key and is
\* followed by another field, and a second record after it
ValueCollection(v) ==
    << Obj(<< Item("locId", IntV(FALSE, 5)), Item("LOC_ID", v),
              Item("customField", IntV(FALSE, 5)) >>),
       Obj(<< Item("LOC_ID", ABC), Item("Airport", TestField) >>) >>

ValueInputs ==
    {JsonFile(ValueCollection(v)) : v \in ValuesUnderTest}
    \cup BadFiles
    \cup {JsonFile(<<NotObject>>), JsonFile(<<>>),
          JsonFile(<<Obj(<<Item("customField", IntV(FALSE, 5))>>)>>)}

DriverKeys == {"LOC_ID", "locId", "customField"}
DriverValues == {Str(<<"1", "2">>), IntV(FALSE, 5)}
DriverItems == {Item(k, v) : k \in DriverKeys, v \in DriverValues}

\* the records of exactly n fields: no key twice
RecordsOfLen(n) ==
    { s \in [1..n -> DriverItems] : \A p, q \in 1..n : p # q => s[p].k # s[q].k }

ElementsUpTo(n) ==
    {Obj(s) : s \in UNION {RecordsOfLen(len) : len \in 0..n}} \cup {NotObject}

\* the collections of at most r records and f fields
RECURSIVE Collections(_, _)
Collections(r, f) ==
    IF r = 0 THEN {<<>>}
    ELSE {<<>>} \cup UNION { {<<el>> \o rest : rest \in Collections(r - 1, f - Len(el.items))}
                             : el \in ElementsUpTo(f) }

DriverInputs == {JsonFile(d) : d \in Collections(MaxRecords, MaxFields)} \cup BadFiles

(***************************************************************************)
(* The state of one run of standardize_json_fields(input_file, output_file)*)
(***************************************************************************)
VARIABLES
    pc,                 \* where the run is: start, loop, fields, dump, done, failed
    inFile,             \* the file at input_file
    outBefore,          \* the file at output_file before the run
    outFile,            \* the file at output_file
    error,              \* the exception that ended the run, "none" if none
    data,               \* line 149
    i,                  \* the records appended so far (enumerate's index)
    j,                  \* the items of the current record done so far
    new_record,         \* line 159
    old_field,          \* line 162
    new_field,          \* line 163
    value,              \* lines 162-175
    numeric,            \* the outcome of the condition of line 166
    raised,             \* the try block of lines 167-173 raised
    standardized_data   \* line 154

vars ==
    << pc, inFile, outBefore, outFile, error, data, i, j, new_record, old_field,
       new_field, value, numeric, raised, standardized_data >>

files == <<inFile, outBefore>>
locals == <<old_field, new_field, value, numeric, raised>>

InitWith(inputs, before) ==
    /\ pc = "start"
    /\ inFile \in inputs
    /\ outBefore \in before
    /\ outFile = outBefore
    /\ error = "none"
    /\ data = <<>>
    /\ i = 0
    /\ j = 0
    /\ new_record = <<>>
    /\ old_field = ""
    /\ new_field = ""
    /\ value = Null
    /\ numeric = FALSE
    /\ raised = FALSE
    /\ standardized_data = <<>>

Init == InitWith(DriverInputs, {NoFile, OldFile})
InitValue == InitWith(ValueInputs, {OldFile})

\* the exception open() or json.load raises on the input file
LoadError(kind) ==
    CASE kind = "missing" -> "FileNotFoundError"
      [] kind = "unreadable" -> "PermissionError"
      [] kind = "invalid" -> "JSONDecodeError"

\* lines 148-149, the file loads
LoadOk ==
    /\ pc = "start"
    /\ inFile.kind = "json"
    /\ data' = inFile.data
    /\ pc' = "loop"
    /\ UNCHANGED <<files, outFile, error, i, j, new_record, locals, standardized_data>>

\* (variant) the output file is opened for writing before the input is loaded
LoadFailAfterOpen ==
    /\ pc = "start"
    /\ inFile.kind # "json"
    /\ outFile' = FileOf(<<>>)
    /\ error' = LoadError(inFile.kind)
    /\ pc' = "failed"
    /\ UNCHANGED <<files, data, i, j, new_record, locals, standardized_data>>

\* lines 148-149, open or json.load raises
LoadFail ==
    /\ pc = "start"
    /\ inFile.kind # "json"
    /\ error' = LoadError(inFile.kind)
    /\ pc' = "failed"
    /\ UNCHANGED <<files, outFile, data, i, j, new_record, locals, standardized_data>>

\* lines 155-162, the next record is an object
BeginRecord ==
    /\ pc = "loop"
    /\ i < Len(data)
    /\ data[i + 1].obj
    /\ new_record' = <<>>
    /\ j' = 0
    /\ pc' = "fields"
    /\ UNCHANGED <<files, outFile, error, data, i, locals, standardized_data>>

\* lines 155-162, record.items() raises on an element that is no object
BadRecord ==
    /\ pc = "loop"
    /\ i < Len(data)
    /\ ~data[i + 1].obj
    /\ new_record' = <<>>
    /\ error' = "AttributeError"
    /\ pc' = "failed"
    /\ UNCHANGED <<files, outFile, data, i, j, locals, standardized_data>>

\* (variant) no try/except around lines 168-173: the ValueError ends the run
FieldPropagates ==
    /\ pc = "fields"
    /\ j < Len(data[i + 1].items)
    /\ LET item == data[i + 1].items[j + 1]
           fails == LooksNumeric(item.v) /\ Raises(item.v.s)
       IN  /\ old_field' = item.k
           /\ new_field' = Lookup(item.k)
           /\ numeric' = LooksNumeric(item.v)
           /\ raised' = fails
           /\ value' = Coerce(item.v)
           /\ new_record' = IF fails THEN new_record
                             ELSE SetItem(new_record, Lookup(item.k), Coerce(item.v))
           /\ pc' = IF fails THEN "failed" ELSE pc
           /\ error' = IF fails THEN "ValueError" ELSE error
    /\ j' = j + 1
    /\ UNCHANGED <<files, outFile, data, i, standardized_data>>

\* lines 162-177, one item of the current record
Field ==
    /\ pc = "fields"
    /\ j < Len(data[i + 1].items)
    /\ LET item == data[i + 1].items[j + 1]
           key  == Lookup(item.k)
           test == LooksNumeric(item.v)
           val  == Coerce(item.v)
       IN  /\ old_field' = item.k
           /\ new_field' = key
           /\ numeric' = test
           /\ raised' = (test /\ Raises(item.v.s))
           /\ value' = val
           /\ new_record' = SetItem(new_record, key, val)
    /\ j' = j + 1
    /\ UNCHANGED <<pc, files, outFile, error, data, i, standardized_data>>

\* (variant) a record equal to one already appended is dropped as a duplicate
EndRecordDedup ==
    /\ pc = "fields"
    /\ j = Len(data[i + 1].items)
    /\ standardized_data' =
           IF \E p \in 1..Len(standardized_data) : standardized_data[p] = new_record
           THEN standardized_data
           ELSE Append(standardized_data, new_record)
    /\ i' = i + 1
    /\ pc' = "loop"
    /\ UNCHANGED <<files, outFile, error, data, j, new_record, locals>>

\* line 179
EndRecord ==
    /\ pc = "fields"
    /\ j = Len(data[i + 1].items)
    /\ standardized_data' = Append(standardized_data, new_record)
    /\ i' = i + 1
    /\ pc' = "loop"
    /\ UNCHANGED <<files, outFile, error, data, j, new_record, locals>>

\* line 182, open(output_file, 'w') creates or truncates the file
OpenOk ==
    /\ pc = "loop"
    /\ i = Len(data)
    /\ outFile' = FileOf(<<>>)
    /\ pc' = "dump"
    /\ UNCHANGED <<files, error, data, i, j, new_record, locals, standardized_data>>

\* line 182, open raises (the destination is not writable)
OpenFail ==
    /\ pc = "loop"
    /\ i = Len(data)
    /\ error' = "PermissionError"
    /\ pc' = "failed"
    /\ UNCHANGED <<files, outFile, data, i, j, new_record, locals, standardized_data>>

\* line 183, json.dump writes its next chunk
WriteChunk ==
    /\ pc = "dump"
    /\ Len(outFile.content) < Len(Chunks(standardized_data))
    /\ outFile' = FileOf(Append(outFile.content,
                                Chunks(standardized_data)[Len(outFile.content) + 1]))
    /\ UNCHANGED <<pc, files, error, data, i, j, new_record, locals, standardized_data>>

\* line 183, a write raises OSError (the disk is full, say)
WriteFail ==
    /\ pc = "dump"
    /\ Len(outFile.content) < Len(Chunks(standardized_data))
    /\ error' = "OSError"
    /\ pc' = "failed"
    /\ UNCHANGED <<files, outFile, data, i, j, new_record, locals, standardized_data>>

\* the end of the with block of line 182, and lines 185-190
Finish ==
    /\ pc = "dump"
    /\ Len(outFile.content) = Len(Chunks(standardized_data))
    /\ pc' = "done"
    /\ UNCHANGED <<files, outFile, error, data, i, j, new_record, locals, standardized_data>>

Next ==
    \/ LoadOk
    \/ LoadFail
    \/ BeginRecord
    \/ BadRecord
    \/ Field
    \/ EndRecord
    \/ OpenOk
    \/ OpenFail
    \/ WriteChunk
    \/ WriteFail
    \/ Finish

\* the driver instance: every small collection
Spec == Init /\ [][Next]_vars
\* the value instance: every short text, and every kind of value, in one fixed collection
SpecValue == InitValue /\ [][Next]_vars

(***************************************************************************)
(* The properties checked.                                                 *)
(***************************************************************************)
\* the item the loop of line 162 has just processed
Processed == pc = "fields" /\ j > 0
Current == data[i + 1].items[j]

\* the canonical key of a key as the specification defines it (4.1)
Canon(k) == IF k \in LegacyKeys THEN FIELD_MAPPING[k] ELSE k

\* the value of a record under key k, which it has
GetItem(items, k) == items[CHOOSE p \in 1..Len(items) : items[p].k = k].v

\* the number of items of a record under key k
Count(items, k) == Cardinality({p \in 1..Len(items) : items[p].k = k})

\* the whole output collection the input file calls for
Expected == [p \in 1..Len(inFile.data) |-> TransformRecord(inFile.data[p].items)]

T(s) == Str(s)

\* no canonical key of the table is a legacy key mapped to another key
TableIsClosed ==
    \A k \in LegacyKeys :
       FIELD_MAPPING[k] \notin LegacyKeys \/ FIELD_MAPPING[FIELD_MAPPING[k]] = FIELD_MAPPING[k]

\* C1: the record transform is idempotent: transforming an output record again (as
\* it stands when appended, and at the end of the run) gives the same record, keys
\* and values; every canonical key of the table is absent from
\* the table or mapped to itself; a value coerced or kept as text by the first pass
\* is unchanged by a second pass.
C1_Idempotent ==
    /\ TableIsClosed
    /\ pc \in {"loop", "done"} =>
          \A p \in 1..Len(standardized_data) :
             TransformRecord(standardized_data[p]) = standardized_data[p]
    /\ Processed => /\ Coerce(value) = value
                    /\ Lookup(new_field) = new_field

\* a record whose keys collide and whose text value was coerced has been transformed
C1_Witness ==
    /\ pc = "done"
    /\ Len(data) = 2
    /\ Len(data[1].items) = 3
    /\ data[1].items[2] = Item("LOC_ID", T(<<"-", "4", "2">>))
    /\ standardized_data[1] =
          <<Item("locId", IntV(TRUE, 42)), Item("customField", IntV(FALSE, 5))>>

\* C2: after i records standardized_data has exactly i elements, the p-th the
\* transform of the p-th input record; at completion the output has as many records
\* as the input, in the input's order.
C2_OrderAndCardinality ==
    /\ Len(standardized_data) = i
    /\ i <= Len(data)
    /\ \A p \in 1..i : standardized_data[p] = TransformRecord(data[p].items)
    /\ pc \in {"dump", "done"} => i = Len(inFile.data)
    /\ pc = "done" => outFile = FileOf(Chunks(Expected))

\* a run over two identical, non-empty records has completed
C2_Witness ==
    /\ pc = "done"
    /\ Len(data) = 2
    /\ data[1] = data[2]
    /\ data[1].items # <<>>
    /\ Len(outFile.content) = 4

\* C3: the output file is always either as it was before the run or the complete
\* serialized output collection.
C3_AllOrNothing ==
    \/ outFile = outBefore
    \/ outFile = FileOf(Chunks(Expected))

\* C4: when loading fails the run aborts with the load's exception before any record
\* is transformed and the output file is neither opened nor changed; the output is
\* touched only after the load and the transform of every record.
C4_LoadFailureAborts ==
    /\ (inFile.kind # "json" /\ pc # "start") =>
          /\ pc = "failed"
          /\ error = LoadError(inFile.kind)
          /\ outFile = outBefore
          /\ data = <<>> /\ standardized_data = <<>> /\ new_record = <<>>
          /\ i = 0 /\ j = 0 /\ old_field = ""
    /\ (outFile # outBefore \/ pc \in {"dump", "done"}) =>
          /\ inFile.kind = "json"
          /\ data = inFile.data
          /\ standardized_data = Expected

\* the load of an invalid file has failed beside an output file of an earlier run
C4_Witness ==
    /\ inFile.kind = "invalid"
    /\ pc = "failed"
    /\ error = "JSONDecodeError"
    /\ outFile = OldFile

\* C5: when several keys of an input record have the same canonical key, the output
\* record has that key once, with the (coerced) value of the last of them.
C5_LaterWins ==
    \A p \in 1..Len(standardized_data) :
       \A a, b \in 1..Len(data[p].items) :
          LET items == data[p].items
              out   == standardized_data[p]
          IN  ( /\ a < b
                /\ Canon(items[a].k) = Canon(items[b].k)
                /\ \A c \in (b + 1)..Len(items) : Canon(items[c].k) # Canon(items[b].k) )
              => /\ Count(out, Canon(items[b].k)) = 1
                 /\ GetItem(out, Canon(items[b].k)) = Coerce(items[b].v)

\* a record with a legacy key and, later, its canonical key has been transformed
C5_Witness ==
    /\ Len(standardized_data) >= 1
    /\ data[1].items = <<Item("LOC_ID", T(<<"1", "2">>)), Item("locId", IntV(FALSE, 5))>>
    /\ standardized_data[1] = <<Item("locId", IntV(FALSE, 5))>>

\* C6: the key set of an output record is the image of the input record's key set
\* under the lookup: every output key is a canonical key of the table or an unmapped
\* input key, and every input key has exactly one output key.
C6_KeySet ==
    \A p \in 1..Len(standardized_data) :
       LET ins == KeysOf(data[p].items)
           out == standardized_data[p]
       IN  /\ KeysOf(out) = {Canon(k) : k \in ins}
           /\ KeysOf(out) \subseteq CanonicalKeys \cup (ins \ LegacyKeys)
           /\ \A k \in ins : Count(out, Canon(k)) = 1

\* a record with a mapped and an unmapped key has been transformed
C6_Witness ==
    /\ Len(standardized_data) >= 1
    /\ KeysOf(data[1].items) = {"LOC_ID", "customField"}
    /\ KeysOf(standardized_data[1]) = {"locId", "customField"}

\* C7: a text that passes line 166 and parses becomes a float if it holds 'E+' or
\* 'e+', else a float if it holds '.', else an integer; "123", "-42", "123.45" and
\* "1.5E+10" become 123, -42, 123.45 and 1.5e10; a text that fails line 166, such as
\* "abc" or "", stays as it is.
C7_NumericType ==
    Processed =>
       LET v == Current.v
       IN  /\ (v.t = "str" /\ numeric /\ ~raised) =>
                 value.t = IF Contains(v.s, <<"E", "+">>) \/ Contains(v.s, <<"e", "+">>)
                           THEN "float"
                           ELSE IF Contains(v.s, <<".">>) THEN "float" ELSE "int"
           /\ (v.t = "str" /\ ~numeric) => value = v
           /\ v = T(<<"1", "2", "3">>) => value = IntV(FALSE, 123)
           /\ v = T(<<"-", "4", "2">>) => value = IntV(TRUE, 42)
           /\ v = T(<<"1", "2", "3", ".", "4", "5">>) => value = FloatV(FALSE, 12345, -2)
           /\ v = T(<<"1", ".", "5", "E", "+", "1", "0">>) => value = FloatV(FALSE, 15, 9)
           /\ v \in {T(<<"a", "b", "c">>), T(<<>>)} => ~numeric /\ value = v

\* "1.5E+10" has been converted
C7_Witness ==
    /\ Processed
    /\ Current.v = T(<<"1", ".", "5", "E", "+", "1", "0">>)
    /\ numeric /\ ~raised
    /\ value = FloatV(FALSE, 15, 9)

\* C8: a value that is not text is never altered and a key that is not in the table
\* is never renamed; a record with no key of the table and no text value is output
\* as it is.
C8_Frame ==
    /\ Processed =>
          /\ Current.v.t # "str" =>
                /\ value = Current.v
                /\ ~numeric /\ ~raised
                /\ GetItem(new_record, Canon(Current.k)) = Current.v
          /\ Current.k \notin LegacyKeys => new_field = Current.k
    /\ \A p \in 1..Len(standardized_data) :
          ( \A q \in 1..Len(data[p].items) :
               data[p].items[q].k \notin LegacyKeys /\ data[p].items[q].v.t # "str" )
          => standardized_data[p] = data[p].items

\* the record {"customField": 5} has been transformed
C8_Witness ==
    /\ pc = "done"
    /\ data = <<Obj(<<Item("customField", IntV(FALSE, 5))>>)>>
    /\ standardized_data = << <<Item("customField", IntV(FALSE, 5))>> >>

\* s without the characters at the positions in drop
Without(s, drop) ==
    LET kept == (1..Len(s)) \ drop
    IN  [q \in 1..Cardinality(kept) |->
            s[CHOOSE p \in kept : Cardinality({r \in kept : r <= p}) = q]]

\* s without every occurrence of the two-character text <<a, b>>, a # b
WithoutPair(s, a, b) ==
    Without(s, {p \in 1..Len(s) : \/ s[p] = a /\ p < Len(s) /\ s[p + 1] = b
                                  \/ s[p] = b /\ p > 1 /\ s[p - 1] = a})

\* what remains of a text after removing every '.', every '-', and every occurrence
\* of 'E+' and of 'e+' (4.2)
Remainder(s) ==
    WithoutPair(WithoutPair(Without(s, {p \in 1..Len(s) : s[p] \in {".", "-"}}), "E", "+"),
                "e", "+")

OnlyDigits(s) == \A p \in 1..Len(s) : s[p] \in DigitChars

\* a negative exponent: 'e-' followed by a digit
HasNegativeExponent(s) ==
    \E p \in 1..(Len(s) - 2) : s[p] = "e" /\ s[p + 1] = "-" /\ s[p + 2] \in DigitChars

\* C9 as stated: line 166 accepts a text exactly when its remainder is made of digits
\* only, the empty remainder of ".", "-" and "" included; it accepts "1.2.3" and
\* "--5" and rejects a text that uses 'e-' or starts with '+'.
C9_Original ==
    (Processed /\ Current.v.t = "str") =>
       LET s == Current.v.s
       IN  /\ numeric <=> OnlyDigits(Remainder(s))
           /\ s \in {<<".">>, <<"-">>, <<>>} => numeric
           /\ s \in {<<"1", ".", "2", ".", "3">>, <<"-", "-", "5">>} => numeric
           /\ Contains(s, <<"e", "-">>) => ~numeric
           /\ (s # <<>> /\ Head(s) = "+") => ~numeric

\* C9, amended: line 166 accepts a text exactly when its remainder is not empty and
\* made of digits only, so ".", "-" and "" are rejected; it accepts "1.2.3" and
\* "--5" and rejects a text with a negative exponent ('e-' and a digit) or that
\* starts with '+'.
C9_Heuristic ==
    (Processed /\ Current.v.t = "str") =>
       LET s == Current.v.s
       IN  /\ numeric <=> (Remainder(s) # <<>> /\ OnlyDigits(Remainder(s)))
           /\ s \in {<<".">>, <<"-">>, <<>>} => ~numeric
           /\ s \in {<<"1", ".", "2", ".", "3">>, <<"-", "-", "5">>} => numeric
           /\ HasNegativeExponent(s) => ~numeric
           /\ (s # <<>> /\ Head(s) = "+") => ~numeric

\* "." has been through line 166 and was rejected
C9_Witness ==
    /\ Processed
    /\ Current.v = T(<<".">>)
    /\ ~numeric
    /\ value = T(<<".">>)

\* C10: when a text passes line 166 but does not parse ("1.2.3", "--5", "12-3" and
\* "5e+" do not), the output record holds the text as it was under the canonical
\* key, no error ends the run there, the loop goes on with the next field or record,
\* and a run that completes has written the whole output.
C10_LocalRecovery ==
    /\ Processed =>
          /\ raised =>
                /\ numeric
                /\ error = "none"
                /\ value = Current.v
                /\ GetItem(new_record, Canon(Current.k)) = Current.v
                /\ ENABLED (Field \/ EndRecord)
          /\ Current.v \in { T(<<"1", ".", "2", ".", "3">>), T(<<"-", "-", "5">>),
                             T(<<"1", "2", "-", "3">>), T(<<"5", "e", "+">>) } => raised
    /\ error \notin {"ValueError", "TypeError"}
    /\ pc = "done" => /\ standardized_data = Expected
                      /\ outFile = FileOf(Chunks(Expected))

\* a run whose first record holds "1.2.3" has completed with the text kept
C10_Witness ==
    /\ pc = "done"
    /\ Len(data) = 2
    /\ Len(data[1].items) = 3
    /\ data[1].items[2] = Item("LOC_ID", T(<<"1", ".", "2", ".", "3">>))
    /\ standardized_data[1] = << Item("locId", T(<<"1", ".", "2", ".", "3">>)),
                                 Item("customField", IntV(FALSE, 5)) >>
    /\ Len(standardized_data) = 2
    /\ outFile = FileOf(Chunks(standardized_data))

====
